---- MODULE Spec2Model ----
(***************************************************************************)
(* Model of the remote logging process (src/logging/src/lib.rs): the       *)
(* access filter (is_node_allowed, is_package_allowed), the control        *)
(* handler (handle_internal_request), the log router                       *)
(* (handle_logging_request), the dispatcher (handle_message) and the       *)
(* receive loop of init.  The VFS (open_dir, open_file, File::append) and  *)
(* the transport (await_message) are the environment: each call may        *)
(* succeed or fail.                                                        *)
(***************************************************************************)
EXTENDS Naturals, Sequences, FiniteSets, TLC

(* ------------------------------------------------------------------ *)
(* Bounds                                                              *)
(* ------------------------------------------------------------------ *)

\* Log requests that reach the VFS calls of the router in a run of SpecRouter.
MaxLogs == 2

\* The same in a run of Spec.
MaxAdminLogs == 1

(* ------------------------------------------------------------------ *)
(* Identities and messages                                             *)
(* ------------------------------------------------------------------ *)

Address(n, p, q) == [node |-> n, package |-> p, process |-> q]

\* `our`: the address init() is called with.
Our == Address("our.os", "logging:sys", "logging")

Nodes == {"our.os", "bob.os"}

PackageIds == {"logging:sys", "app:dev"}

\* The senders of the model.  Among the three of package logging:sys every
\* pair differs in the node only, in the process only, or in both.
Senders ==
  { Our,
    Address("bob.os", "logging:sys", "logging"),
    Address("bob.os", "logging:sys", "worker"),
    Address("our.os", "app:dev", "worker") }

\* Payload bytes carried by LoggingRequest::Log.
Payloads == { "{\"msg\":\"hi\",\"source\":\"mallory\"}", "null", "[1]", "{msg" }

InternalTags ==
  { "AddAllowedPackage", "RemoveAllowedPackage", "WhitelistNode",
    "UnwhitelistNode", "BlacklistNode", "UnblacklistNode" }

PackageTags == { "AddAllowedPackage", "RemoveAllowedPackage" }

\* Request bodies: one externally tagged JSON value each.
LogBodies == { [tag |-> "Log", val |-> p] : p \in Payloads }

InternalBodies ==
  { [tag |-> t, val |-> p] : t \in PackageTags, p \in PackageIds }
    \cup { [tag |-> t, val |-> n] : t \in InternalTags \ PackageTags, n \in Nodes }

GarbageBodies == { [tag |-> "Ping", val |-> "x"] }

Bodies == LogBodies \cup InternalBodies \cup GarbageBodies

ResponseBodies ==
  { [tag |-> "Log", val |-> "null"],
    [tag |-> "BlacklistNode", val |-> "bob.os"] }

Messages ==
  { [is_request |-> TRUE, source |-> s, body |-> b] : s \in Senders, b \in Bodies }
    \cup { [is_request |-> FALSE, source |-> s, body |-> b] :
             s \in Senders, b \in ResponseBodies }

\* The traffic of Spec: every control command, response and malformed
\* request, and the log requests but the one with the null payload.
AdminBodies == Bodies \ { [tag |-> "Log", val |-> "null"] }

AdminMessages == { m \in Messages : ~m.is_request \/ m.body \in AdminBodies }

\* The traffic of SpecRouter: every log request, response and malformed
\* request, and the control commands on one node and one package.
RouterBodies ==
  LogBodies \cup GarbageBodies
    \cup { [tag |-> "BlacklistNode", val |-> "bob.os"],
           [tag |-> "UnblacklistNode", val |-> "bob.os"],
           [tag |-> "AddAllowedPackage", val |-> "logging:sys"],
           [tag |-> "RemoveAllowedPackage", val |-> "logging:sys"] }

RouterMessages == { m \in Messages : m.body \in RouterBodies }

\* Outcomes of the VFS calls one message can make.
IO == [open_dir : BOOLEAN, open_file : BOOLEAN, append : BOOLEAN]

AllSucceed == [open_dir |-> TRUE, open_file |-> TRUE, append |-> TRUE]

(* ------------------------------------------------------------------ *)
(* State                                                               *)
(* ------------------------------------------------------------------ *)

VARIABLES
  drive_path,        \* State.drive_path
  log_files,         \* State.log_files : Address -> File (its path)
  allowed_packages,  \* State.allowed_packages
  whitelist,         \* State.whitelist
  blacklist,         \* State.blacklist
  dirs,              \* VFS: the directories that exist
  files,             \* VFS: file path -> the records appended, in order
  crashed,           \* the process has panicked
  result,            \* how the last iteration ended: Ok, Err, Panic, SendError
  logged,            \* the line the last iteration logged (info! / error!)
  opens,             \* Address -> number of open_file calls made for it
  appends,           \* Address -> number of append calls that succeeded for it
  nLogs,             \* log requests that reached the VFS calls of the router
  arrived            \* the log requests handled with Ok, in arrival order

vars ==
  << drive_path, log_files, allowed_packages, whitelist, blacklist, dirs, files,
     crashed, result, logged, opens, appends, nLogs, arrived >>

\* The State struct as one value.
State ==
  [ drive_path |-> drive_path, log_files |-> log_files,
    allowed_packages |-> allowed_packages, whitelist |-> whitelist,
    blacklist |-> blacklist ]

Vfs == [dirs |-> dirs, files |-> files]

\* State::new
new(path) ==
  [ drive_path |-> path, log_files |-> << >>, allowed_packages |-> {},
    whitelist |-> {}, blacklist |-> {} ]

\* create_drive(our.package_id(), "remote_log", None)
create_drive(package_id, drive) == << package_id, drive >>

(* ------------------------------------------------------------------ *)
(* Access filter                                                       *)
(* ------------------------------------------------------------------ *)

None == [some |-> FALSE]

Some(x) == [some |-> TRUE, val |-> x]

is_node_allowed_blacklist_first(source, state) ==
  IF state.blacklist # {} /\ source.node \in state.blacklist
    THEN Some(<< "dropping log Request from blacklisted node", source.node >>)
  ELSE IF state.whitelist # {} /\ source.node \notin state.whitelist
    THEN Some(<< "dropping log Request from un-whitelisted node", source.node >>)
  ELSE None

is_node_allowed_cached_pass(source, state) ==
  IF source \in DOMAIN state.log_files
    THEN None
  ELSE IF state.whitelist # {} /\ source.node \notin state.whitelist
    THEN Some(<< "dropping log Request from un-whitelisted node", source.node >>)
  ELSE IF state.blacklist # {} /\ source.node \in state.blacklist
    THEN Some(<< "dropping log Request from blacklisted node", source.node >>)
  ELSE None

is_node_allowed(source, state) ==
  IF state.whitelist # {} /\ source.node \notin state.whitelist
    THEN Some(<< "dropping log Request from un-whitelisted node", source.node >>)
  ELSE IF state.blacklist # {} /\ source.node \in state.blacklist
    THEN Some(<< "dropping log Request from blacklisted node", source.node >>)
  ELSE None

is_package_allowed_never(source, state) == None

is_package_allowed(source, state) ==
  IF state.allowed_packages # {} /\ source.package \notin state.allowed_packages
    THEN Some(<< "dropping log Request from package; not amongst allowed packages",
                 source.package >>)
    ELSE None

(* ------------------------------------------------------------------ *)
(* Results                                                             *)
(* ------------------------------------------------------------------ *)

\* Result<()>: Ok(()) or Err(e); a panic unwinds out of the handler.
Ok == [kind |-> "Ok"]

Err(e) == [kind |-> "Err", error |-> e]

Panic(m) == [kind |-> "Panic", error |-> m]

\* What one handler call leaves behind: its return, the State, the VFS, and
\* the number of open_file and of successful append calls it made.
Outcome(r, state, vfs, o, a) ==
  [ret |-> r, state |-> state, vfs |-> vfs, opened |-> o, appended |-> a]

(* ------------------------------------------------------------------ *)
(* JSON                                                                *)
(* ------------------------------------------------------------------ *)

\* serde_json::from_slice::<Value> on the payloads of the model.  A JSON
\* string is the sequence of its pieces, so that every string compares with
\* the serialized Address of json_address.
from_slice(bytes) ==
  CASE bytes = "{\"msg\":\"hi\",\"source\":\"mallory\"}" ->
         [ok |-> TRUE,
          value |-> [type |-> "object",
                     map |-> [k \in {"msg", "source"} |->
                                IF k = "msg" THEN << "hi" >> ELSE << "mallory" >>]]]
    [] bytes = "null" -> [ok |-> TRUE, value |-> [type |-> "null"]]
    [] bytes = "[1]" -> [ok |-> TRUE, value |-> [type |-> "array"]]
    [] OTHER -> [ok |-> FALSE]

\* json!(source): an Address serializes as "node@process:package".
json_address(source) == << source.node, "@", source.process, ":", source.package >>

\* log["source"] = v.  IndexMut<&str> for Value turns Null into an empty
\* object, inserts into an object, and panics on every other type.
can_index(value) == value.type \in {"null", "object"}

index_set_keep(value, key, v) ==
  LET map == IF value.type = "object" THEN value.map ELSE << >>
  IN  [ type |-> "object",
        map |-> [k \in DOMAIN map \cup {key} |-> IF k \in DOMAIN map THEN map[k] ELSE v] ]

index_set(value, key, v) ==
  LET map == IF value.type = "object" THEN value.map ELSE << >>
  IN  [ type |-> "object",
        map |-> [k \in DOMAIN map \cup {key} |-> IF k = key THEN v ELSE map[k]] ]

\* Keys of the model's objects in the order serde_json writes them.
KeyOrder == << "msg", "source" >>

\* serde_json::to_vec of an object: its members in key order.
to_vec(value) ==
  LET ks == SelectSeq(KeyOrder, LAMBDA k : k \in DOMAIN value.map)
  IN  [i \in 1..Len(ks) |-> << ks[i], value.map[ks[i]] >>]

(* ------------------------------------------------------------------ *)
(* Log router                                                          *)
(* ------------------------------------------------------------------ *)

\* format!("{}/{}", state.drive_path, source.package_id())
log_dir_path(state, source) == Append(state.drive_path, source.package)

log_file_path_by_node(state, source) ==
  Append(Append(state.drive_path, source.package), << source.node, ".log" >>)

\* format!("{log_dir_path}/{}.log", source.process())
log_file_path(state, source) ==
  Append(log_dir_path(state, source), << source.process, ".log" >>)

\* open_file(path, create = true): the file exists afterwards, content kept.
vfs_open_file(vfs, path) ==
  [ dirs |-> vfs.dirs,
    files |-> [p \in DOMAIN vfs.files \cup {path} |->
                 IF p \in DOMAIN vfs.files THEN vfs.files[p] ELSE << >>] ]

\* open_dir(path, create = true)
vfs_open_dir(vfs, path) == [dirs |-> vfs.dirs \cup {path}, files |-> vfs.files]

vfs_append_overwrite(vfs, path, bytes) ==
  [ dirs |-> vfs.dirs,
    files |-> [vfs.files EXCEPT ![path] = << bytes >>] ]

\* File::append on the file at path
vfs_append(vfs, path, bytes) ==
  [ dirs |-> vfs.dirs,
    files |-> [vfs.files EXCEPT ![path] = Append(@, bytes)] ]

insert_file_single(state, source, path) ==
  [ state EXCEPT !.log_files = [a \in {source} |-> path] ]

\* state.log_files.insert(source, file)
insert_file(state, source, path) ==
  [ state EXCEPT !.log_files =
      [a \in DOMAIN state.log_files \cup {source} |->
         IF a = source THEN path ELSE state.log_files[a]] ]

cached_never(source, state) == FALSE

\* state.log_files.entry(source): whether a handle is cached for source.
cached(source, state) == source \in DOMAIN state.log_files

append_log_retry(source, log, state, vfs, io, o) ==
  Outcome(Ok, state, vfs_append(vfs, state.log_files[source], log), o, 1)

\* log_file.append(&log)? on the cached handle of source
append_log(source, log, state, vfs, io, o) ==
  IF io.append
    THEN Outcome(Ok, state, vfs_append(vfs, state.log_files[source], log), o, 1)
    ELSE Outcome(Err(<< "append failed" >>), state, vfs, o, 0)

handle_logging_request(source, request, state, vfs, io) ==
  LET parsed == from_slice(request.val)
  IN
  IF ~parsed.ok
    THEN Outcome(Err(<< "serde_json: invalid log" >>), state, vfs, 0, 0)
  ELSE IF ~can_index(parsed.value)
    THEN Outcome(Panic(<< "cannot access key \"source\" in JSON value" >>), state, vfs, 0, 0)
  ELSE
    LET log == to_vec(index_set(parsed.value, "source", json_address(source)))
    IN
    IF cached(source, state)
      THEN append_log(source, log, state, vfs, io, 0)
    ELSE IF ~io.open_dir
      THEN Outcome(Panic(<< "failed to open log dir" >>), state, vfs, 0, 0)
    ELSE
      LET vfs1 == vfs_open_dir(vfs, log_dir_path(state, source))
      IN
      IF ~io.open_file
        THEN Outcome(Panic(<< "failed to open log file" >>), state, vfs1, 1, 0)
        ELSE append_log(source, log,
                        insert_file(state, source, log_file_path(state, source)),
                        vfs_open_file(vfs1, log_file_path(state, source)), io, 1)

(* ------------------------------------------------------------------ *)
(* Control handler                                                     *)
(* ------------------------------------------------------------------ *)

InternalApply_exclusive(request, state) ==
  CASE request.tag = "AddAllowedPackage" ->
         [state EXCEPT !.allowed_packages = @ \cup {request.val}]
    [] request.tag = "RemoveAllowedPackage" ->
         [state EXCEPT !.allowed_packages = @ \ {request.val}]
    [] request.tag = "WhitelistNode" ->
         [state EXCEPT !.whitelist = @ \cup {request.val},
                       !.blacklist = @ \ {request.val}]
    [] request.tag = "UnwhitelistNode" ->
         [state EXCEPT !.whitelist = @ \ {request.val}]
    [] request.tag = "BlacklistNode" ->
         [state EXCEPT !.blacklist = @ \cup {request.val},
                       !.whitelist = @ \ {request.val}]
    [] request.tag = "UnblacklistNode" ->
         [state EXCEPT !.blacklist = @ \ {request.val}]

\* The match of handle_internal_request: HashSet::insert / HashSet::remove.
InternalApply(request, state) ==
  CASE request.tag = "AddAllowedPackage" ->
         [state EXCEPT !.allowed_packages = @ \cup {request.val}]
    [] request.tag = "RemoveAllowedPackage" ->
         [state EXCEPT !.allowed_packages = @ \ {request.val}]
    [] request.tag = "WhitelistNode" ->
         [state EXCEPT !.whitelist = @ \cup {request.val}]
    [] request.tag = "UnwhitelistNode" ->
         [state EXCEPT !.whitelist = @ \ {request.val}]
    [] request.tag = "BlacklistNode" ->
         [state EXCEPT !.blacklist = @ \cup {request.val}]
    [] request.tag = "UnblacklistNode" ->
         [state EXCEPT !.blacklist = @ \ {request.val}]

handle_internal_request_node_only(our, source, request, state) ==
  IF our.node # source.node
    THEN [ ret |-> Err(<< "rejecting InternalRequest from remote node" >>),
           state |-> state ]
    ELSE [ret |-> Ok, state |-> InternalApply(request, state)]

handle_internal_request_strict(our, source, request, state) ==
  IF our # source
    THEN [ ret |-> Err(<< "rejecting InternalRequest from remote node" >>),
           state |-> state ]
  ELSE IF InternalApply(request, state) = state
    THEN [ret |-> Err(<< "set unchanged" >>), state |-> state]
    ELSE [ret |-> Ok, state |-> InternalApply(request, state)]

handle_internal_request(our, source, request, state) ==
  IF our # source
    THEN [ ret |-> Err(<< "rejecting InternalRequest from remote node" >>),
           state |-> state ]
    ELSE [ret |-> Ok, state |-> InternalApply(request, state)]

(* ------------------------------------------------------------------ *)
(* Dispatch                                                            *)
(* ------------------------------------------------------------------ *)

try_into_lenient(body) ==
  IF body.tag \in InternalTags THEN [ok |-> TRUE, variant |-> "InternalRequest"]
  ELSE [ok |-> TRUE, variant |-> "LoggingRequest"]

\* message.body().try_into::<Req>(): untagged, LoggingRequest tried first.
try_into(body) ==
  IF body.tag = "Log" THEN [ok |-> TRUE, variant |-> "LoggingRequest"]
  ELSE IF body.tag \in InternalTags THEN [ok |-> TRUE, variant |-> "InternalRequest"]
  ELSE [ok |-> FALSE]

is_request_always(msg) == TRUE

\* message.is_request()
is_request(msg) == msg.is_request

\* handle_message: the outcome and the line it logs with info!.
handle_message(our, msg, state, vfs, io) ==
  IF ~is_request(msg)
    THEN [ out |-> Outcome(Err(<< "unexpected Response" >>), state, vfs, 0, 0),
           info |-> None ]
  ELSE
    LET source == msg.source
    IN
    IF is_node_allowed(source, state).some
      THEN [out |-> Outcome(Ok, state, vfs, 0, 0), info |-> is_node_allowed(source, state)]
    ELSE IF is_package_allowed(source, state).some
      THEN [out |-> Outcome(Ok, state, vfs, 0, 0),
            info |-> is_package_allowed(source, state)]
    ELSE
      LET req == try_into(msg.body)
      IN
      IF ~req.ok
        THEN [out |-> Outcome(Err(<< "data did not match any variant of untagged enum Req" >>),
                              state, vfs, 0, 0),
              info |-> None]
      ELSE IF req.variant = "LoggingRequest"
        THEN [out |-> handle_logging_request(source, msg.body, state, vfs, io),
              info |-> None]
      ELSE
        LET r == handle_internal_request(our, source, msg.body, state)
        IN  [out |-> Outcome(r.ret, r.state, vfs, 0, 0), info |-> None]

\* Whether handling msg calls handle_logging_request.
routes_to_log(msg, state) ==
  /\ is_request(msg)
  /\ ~is_node_allowed(msg.source, state).some
  /\ ~is_package_allowed(msg.source, state).some
  /\ try_into(msg.body).ok
  /\ try_into(msg.body).variant = "LoggingRequest"

\* Whether handling msg gets as far as the VFS calls of the router.
reaches_vfs(msg, state) ==
  /\ routes_to_log(msg, state)
  /\ from_slice(msg.body.val).ok
  /\ can_index(from_slice(msg.body.val).value)

(* ------------------------------------------------------------------ *)
(* The receive loop of init                                            *)
(* ------------------------------------------------------------------ *)

Init ==
  LET state == new(create_drive(Our.package, "remote_log"))
  IN
  /\ drive_path = state.drive_path
  /\ log_files = state.log_files
  /\ allowed_packages = state.allowed_packages
  /\ whitelist = state.whitelist
  /\ blacklist = state.blacklist
  /\ dirs = {state.drive_path}
  /\ files = << >>
  /\ crashed = FALSE
  /\ result = "none"
  /\ logged = None
  /\ opens = [a \in Senders |-> 0]
  /\ appends = [a \in Senders |-> 0]
  /\ nLogs = 0
  /\ arrived = << >>

\* One iteration on Ok(message): handle_message, then the error is logged; a
\* panic ends the process.  h is what handle_message leaves behind.
Handled(msg, h) ==
  /\ drive_path' = h.out.state.drive_path
  /\ log_files' = h.out.state.log_files
  /\ allowed_packages' = h.out.state.allowed_packages
  /\ whitelist' = h.out.state.whitelist
  /\ blacklist' = h.out.state.blacklist
  /\ dirs' = h.out.vfs.dirs
  /\ files' = h.out.vfs.files
  /\ crashed' = (h.out.ret.kind = "Panic")
  /\ result' = h.out.ret.kind
  /\ logged' = IF h.out.ret.kind = "Err" THEN Some(<< "error", h.out.ret.error[1] >>)
               ELSE IF h.out.ret.kind = "Panic" THEN Some(<< "panic", h.out.ret.error[1] >>)
               ELSE IF h.info.some THEN Some(<< "info", h.info.val[1] >>)
               ELSE None
  /\ opens' = [opens EXCEPT ![msg.source] = @ + h.out.opened]
  /\ appends' = [appends EXCEPT ![msg.source] = @ + h.out.appended]
  /\ arrived' = IF h.out.appended = 1
                  THEN Append(arrived, [source |-> msg.source, log |-> msg.body.val])
                  ELSE arrived

\* What handle_message can leave behind for msg: one outcome for each
\* outcome of the VFS calls it makes (vfs: whether it makes any).
Handlings(msg, vfs) ==
  { handle_message(Our, msg, State, Vfs, io) : io \in IF vfs THEN IO ELSE {AllSucceed} }

Dispatch(msgs, max) ==
  /\ ~crashed
  /\ \E msg \in msgs :
       \E vfs \in {reaches_vfs(msg, State)} :
         /\ vfs => nLogs < max
         /\ nLogs' = IF vfs THEN nLogs + 1 ELSE nLogs
         /\ \E h \in Handlings(msg, vfs) : Handled(msg, h)

\* One iteration on Err(send_error): the error is logged, nothing else.
AwaitSendError ==
  /\ ~crashed
  /\ result' = "SendError"
  /\ logged' = Some(<< "error", "got SendError" >>)
  /\ UNCHANGED << drive_path, log_files, allowed_packages, whitelist, blacklist,
                  dirs, files, crashed, opens, appends, nLogs, arrived >>

Receive == Dispatch(AdminMessages, MaxAdminLogs)

Next == Receive \/ AwaitSendError

Spec == Init /\ [][Next]_vars

ReceiveRouter == Dispatch(RouterMessages, MaxLogs)

NextRouter == ReceiveRouter \/ AwaitSendError

SpecRouter == Init /\ [][NextRouter]_vars

(* ------------------------------------------------------------------ *)
(* Properties                                                          *)
(* ------------------------------------------------------------------ *)

Request(s, b) == [is_request |-> TRUE, source |-> s, body |-> b]

Response(s, b) == [is_request |-> FALSE, source |-> s, body |-> b]

\* handle_message in the current state.
Handle(msg, io) == handle_message(Our, msg, State, Vfs, io)

\* The handler left the State and the VFS as they are and called no VFS
\* operation.
Untouched(h) ==
  /\ h.out.state = State
  /\ h.out.vfs = Vfs
  /\ h.out.opened = 0
  /\ h.out.appended = 0

\* The filter decision as section 4.1 of the specification words it.
Decision(source) ==
  IF whitelist # {} /\ source.node \notin whitelist
    THEN "dropping log Request from un-whitelisted node"
  ELSE IF blacklist # {} /\ source.node \in blacklist
    THEN "dropping log Request from blacklisted node"
  ELSE IF allowed_packages # {} /\ source.package \notin allowed_packages
    THEN "dropping log Request from package; not amongst allowed packages"
  ELSE "allowed"

\* The decision handle_message took: the text of its info! line, if any.
Applied(h) == IF h.info.some THEN h.info.val[1] ELSE "allowed"

\* The last iteration logged this line.
Logged(level, text) == logged.some /\ logged.val = << level, text >>

\* The outcomes of the VFS calls that the handling of a body can meet: only a
\* log request makes any.
IOOf(b) == IF b.tag = "Log" THEN IO ELSE {AllSucceed}

\* C1: for every sender and every content of the three sets, handle_message
\* denies a request as un-whitelisted, else as blacklisted, else as not amongst
\* the allowed packages, else lets it through, in that order; an empty set
\* restricts nothing.
C1_FilterDecision ==
  \A s \in Senders, b \in Bodies :
    LET h == Handle(Request(s, b), AllSucceed)
    IN  /\ Applied(h) = Decision(s)
        /\ Applied(h) # "allowed" => h.out.ret = Ok

\* C1 witness: a request of a node that is on both lists was dropped with the
\* blacklist reason.
C1_Witness ==
  /\ blacklist # {}
  /\ blacklist \subseteq whitelist
  /\ Logged("info", "dropping log Request from blacklisted node")

\* C2 as stated: a control command of a foreign sender is always an error and
\* changes nothing.
C2_ForeignControlIsError ==
  \A s \in Senders \ {Our}, b \in InternalBodies :
    LET h == Handle(Request(s, b), AllSucceed)
    IN  h.out.ret.kind = "Err" /\ Untouched(h)

\* C2 amended: a control command of a foreign sender changes nothing; it is an
\* error when the filter lets the sender through, and is dropped with Ok and
\* an info line when the filter denies the sender.
C2_ForeignControlRejected ==
  \A s \in Senders \ {Our}, b \in InternalBodies :
    LET h == Handle(Request(s, b), AllSucceed)
    IN  /\ Untouched(h)
        /\ Decision(s) = "allowed" =>
             h.out.ret = Err(<< "rejecting InternalRequest from remote node" >>)
        /\ Decision(s) # "allowed" => h.out.ret = Ok /\ h.info.some

\* C2 witness: a foreign control command was rejected as an error while a
\* filter set was in force.
C2_Witness ==
  /\ result = "Err"
  /\ Logged("error", "rejecting InternalRequest from remote node")
  /\ whitelist \cup blacklist \cup allowed_packages # {}

\* C3 as stated: no message terminates the service; every iteration ends in
\* Ok or in an error the loop logs.
C3_NeverTerminates == ~crashed /\ result \in {"none", "Ok", "Err", "SendError"}

\* C4: a request of a denied sender returns Ok and changes neither the State
\* nor the VFS, whatever its body.
C4_DeniedNoEffect ==
  \A s \in Senders, b \in Bodies :
    Decision(s) # "allowed" =>
      \A io \in IOOf(b) :
        LET h == Handle(Request(s, b), io)
        IN  h.out.ret = Ok /\ Untouched(h)

\* C4 witness: a request was dropped with an info line while a log file
\* existed.
C4_Witness ==
  /\ result = "Ok"
  /\ logged.some
  /\ logged.val[1] = "info"
  /\ DOMAIN files # {}

\* The source member of a record as written to a file.
SourceOf(record) == record[CHOOSE i \in 1..Len(record) : record[i][1] = "source"][2]

\* The records of sender a in the file at path.
RecordsFrom(a, path) ==
  Cardinality({ i \in 1..Len(files[path]) : SourceOf(files[path][i]) = json_address(a) })

\* C5: a sender has at most one target, opened once and reused: after n
\* log requests of a sender that returned Ok, one open_file call was made for
\* it and its n records are all in the file of its target.
C5_TargetReused ==
  \A a \in Senders :
    /\ opens[a] <= 1
    /\ a \in DOMAIN log_files => opens[a] = 1 /\ log_files[a] \in DOMAIN files
    /\ appends[a] >= 1 => a \in DOMAIN log_files
    /\ \A p \in DOMAIN files :
         RecordsFrom(a, p) =
           IF a \in DOMAIN log_files /\ log_files[a] = p THEN appends[a] ELSE 0

\* C5 witness: two log requests of one sender succeeded on one open.
C5_Witness == \E a \in Senders : appends[a] = 2 /\ opens[a] = 1

\* Both targets exist as files in the directory drive_path/package.
InPackageDir(a) ==
  /\ log_files[a] \in DOMAIN files
  /\ SubSeq(log_files[a], 1, Len(log_files[a]) - 1) = Append(drive_path, a.package)
  /\ Append(drive_path, a.package) \in dirs

\* C6 as stated: two different senders of one package never have the same
\* file, and both files are in the package's directory.
C6_DistinctFiles ==
  \A a, b \in DOMAIN log_files :
    a # b /\ a.package = b.package =>
      log_files[a] # log_files[b] /\ InPackageDir(a) /\ InPackageDir(b)

\* C6 amended: two different senders of one package have files in the
\* package's directory, and the files differ exactly when the senders'
\* processes differ; senders that differ in the node only share one file.
C6_DistinctFilesPerProcess ==
  \A a, b \in DOMAIN log_files :
    a # b /\ a.package = b.package =>
      /\ InPackageDir(a) /\ InPackageDir(b)
      /\ log_files[a] # log_files[b] <=> a.process # b.process

\* C6 witness: two senders of one package and different processes each had a
\* log request appended.
C6_Witness ==
  \E a, b \in DOMAIN log_files :
    /\ a.package = b.package /\ a.process # b.process
    /\ appends[a] = 1 /\ appends[b] = 1

\* The payload is a well-formed structured record: it parses to an object.
WellFormed(p) == from_slice(p).ok /\ from_slice(p).value.type = "object"

\* C7 as stated: a log request that passes the filter and whose payload is
\* not a well-formed record is an error, and creates, caches and appends
\* nothing.
C7_MalformedPayloadIsError ==
  \A s \in Senders, p \in Payloads, io \in IO :
    Decision(s) = "allowed" /\ ~WellFormed(p) =>
      LET h == Handle(Request(s, [tag |-> "Log", val |-> p]), io)
      IN  h.out.ret.kind = "Err" /\ Untouched(h)

\* C8 as stated: a failure to create the directory or the file is an error of
\* that message: nothing is cached for the sender and the service goes on.
C8_OpenFailureIsError ==
  \A s \in Senders, p \in Payloads, io \in IO :
    /\ Decision(s) = "allowed"
    /\ WellFormed(p)
    /\ s \notin DOMAIN log_files
    /\ ~io.open_dir \/ ~io.open_file
    => LET h == Handle(Request(s, [tag |-> "Log", val |-> p]), io)
       IN  h.out.ret.kind = "Err" /\ s \notin DOMAIN h.out.state.log_files

\* C9: a response is an error whoever sent it and whatever the filter sets
\* are, and changes nothing.
C9_ResponseIsError ==
  \A s \in Senders, b \in ResponseBodies :
    LET h == Handle(Response(s, b), AllSucceed)
    IN  h.out.ret = Err(<< "unexpected Response" >>) /\ Untouched(h)

\* C9 witness: a response was reported as an error while the filter denied
\* every sender.
C9_Witness ==
  /\ result = "Err"
  /\ Logged("error", "unexpected Response")
  /\ \A s \in Senders : Decision(s) # "allowed"

\* The set a control command works on, and whether it adds.
TargetSet(b, state) ==
  IF b.tag \in PackageTags THEN state.allowed_packages
  ELSE IF b.tag \in {"WhitelistNode", "UnwhitelistNode"} THEN state.whitelist
  ELSE state.blacklist

Adds(b) == b.tag \in {"AddAllowedPackage", "WhitelistNode", "BlacklistNode"}

\* C10: a control command of the service itself that passes the filter returns
\* Ok; sent twice in a row it leaves the sets as sent once; adding a member
\* leaves it in the set, and removing an absent member changes nothing.
C10_ControlIdempotent ==
  \A b \in InternalBodies :
    Decision(Our) = "allowed" =>
      LET h1 == Handle(Request(Our, b), AllSucceed)
          h2 == handle_message(Our, Request(Our, b), h1.out.state, h1.out.vfs, AllSucceed)
      IN  /\ h1.out.ret = Ok
          /\ h2.out.ret = Ok
          /\ h2.out.state = h1.out.state
          /\ Adds(b) => TargetSet(b, h1.out.state) = TargetSet(b, State) \cup {b.val}
          /\ ~Adds(b) /\ b.val \notin TargetSet(b, State) => h1.out.state = State

\* C10 witness: the service's own control command was accepted (no log
\* request has been seen, so the silent Ok is a control command's) and left a
\* member that a second add would find present.
C10_Witness ==
  /\ result = "Ok"
  /\ ~logged.some
  /\ nLogs = 0
  /\ Decision(Our) = "allowed"
  /\ whitelist # {} /\ blacklist # {} /\ allowed_packages # {}

\* The three sets the access filter reads.
FilterSets(state) ==
  << state.whitelist, state.blacklist, state.allowed_packages >>

\* C11: only a request that carries a control command and was sent by the
\* service's own identity can change the whitelist, the blacklist or the
\* allowed packages. Whatever message arrives next, if handling it leaves one
\* of the three sets different then it is such a request; a response, a log
\* request, an undeserializable request and a control command of another
\* sender leave the three sets as they are.
C11_OnlyOwnControlChangesSets ==
  \A msg \in Messages : \A io \in IOOf(msg.body) :
    LET h == Handle(msg, io)
    IN  FilterSets(h.out.state) # FilterSets(State)
          => /\ msg.is_request
             /\ msg.body \in InternalBodies
             /\ msg.source = Our

\* C11 witness: a control command changed exactly one of the sets (no log
\* request was seen, the last message was handled silently with Ok).
C11_Witness ==
  /\ result = "Ok"
  /\ ~logged.some
  /\ nLogs = 0
  /\ whitelist = {} /\ blacklist = {"bob.os"} /\ allowed_packages = {}

\* C12 as stated: a request whose body is neither a log request nor a control
\* command is answered with an error by handle_message, whoever sent it, and
\* changes nothing.
C12_UnknownBodyIsError ==
  \A s \in Senders, b \in GarbageBodies :
    LET h == Handle(Request(s, b), AllSucceed)
    IN  /\ h.out.ret.kind = "Err"
        /\ Untouched(h)

\* C12, amended: a request whose body is neither a log request nor a control
\* command changes nothing; handle_message returns the deserialization error
\* when the access filter lets its sender through, and returns Ok with an
\* informational line when the filter denies its sender (the filter runs
\* before the body is deserialized).
C12_UnknownBodyRejected ==
  \A s \in Senders, b \in GarbageBodies :
    LET h == Handle(Request(s, b), AllSucceed)
    IN  /\ Untouched(h)
        /\ Decision(s) = "allowed"
             => /\ h.out.ret
                     = Err(<< "data did not match any variant of untagged enum Req" >>)
                /\ ~h.info.some
        /\ Decision(s) # "allowed"
             => /\ h.out.ret = Ok
                /\ h.info.some

\* C12 witness: the deserialization error was returned and logged while a
\* restriction is in force, so the sender had passed the filter.
C12_Witness ==
  /\ result = "Err"
  /\ Logged("error", "data did not match any variant of untagged enum Req")
  /\ whitelist # {}
  /\ allowed_packages # {}

\* The record has one source member, and it is the serialized sender a.
Stamped(record, a) ==
  /\ Cardinality({ i \in 1..Len(record) : record[i][1] = "source" }) = 1
  /\ SourceOf(record) = json_address(a)

\* C13: every record in every log file carries the identity of the sender
\* whose message delivered it as its source, also when the payload came with
\* a source of its own. The files hold exactly the records of the log
\* requests that were handled with Ok, and whatever log request arrives next,
\* the record it appends has exactly one source member, equal to the sender
\* and never the payload's own value.
C13_SourceIsSender ==
  /\ \A path \in DOMAIN files : \A i \in 1..Len(files[path]) :
       \E a \in DOMAIN log_files :
         /\ log_files[a] = path
         /\ appends[a] > 0
         /\ Stamped(files[path][i], a)
  /\ \A s \in Senders, b \in LogBodies :
       LET h    == Handle(Request(s, b), AllSucceed)
           path == log_file_path(State, s)
       IN  h.out.appended = 1
             => LET after == h.out.vfs.files[path]
                IN  /\ Stamped(after[Len(after)], s)
                    /\ SourceOf(after[Len(after)]) # << "mallory" >>

\* C13 witness: a payload that came with its own source was appended, and a
\* record of another sender is in the same file.
C13_Witness ==
  \E path \in DOMAIN files :
    /\ Len(files[path]) = 2
    /\ \E i \in 1..2 : << "msg", << "hi" >> >> \in { files[path][i][k] : k \in 1..Len(files[path][i]) }
    /\ SourceOf(files[path][1]) # SourceOf(files[path][2])

\* C14: the cached targets only grow and the drive path is fixed. Every step
\* of every execution, whatever message it handles and whether handling
\* succeeds or fails, keeps every key of log_files with the handle it had,
\* and leaves drive_path as init set it.
C14_TargetsOnlyGrow ==
  [][ /\ DOMAIN log_files \subseteq DOMAIN log_files'
      /\ \A a \in DOMAIN log_files : log_files'[a] = log_files[a]
      /\ drive_path' = drive_path ]_vars

\* C14 witness: a control command was accepted, a log request failed in
\* append, and the targets of two senders are cached, the one of the failed
\* request among them.
C14_Witness ==
  /\ Cardinality(DOMAIN log_files) = 2
  /\ blacklist # {}
  /\ Logged("error", "append failed")

\* Process names a sender of a given node and package may have.
Processes == {"logging", "worker", "other"}

\* States that agree with the current one on the three sets and differ from
\* it in the cached targets and in the drive path.
OtherStates ==
  { [State EXCEPT !.log_files = << >>, !.drive_path = << "other", "drive" >>],
    [State EXCEPT !.log_files = [a \in Senders |-> log_file_path(State, a)],
                  !.drive_path = << "other", "drive" >>] }

\* Bodies for the evaluations in those states: none of them reaches the VFS.
OtherBodies ==
  GarbageBodies \cup { [tag |-> "BlacklistNode", val |-> "bob.os"],
                       [tag |-> "AddAllowedPackage", val |-> "app:dev"] }

\* The allowed or denied outcome of one evaluation of the filter by
\* handle_message: the informational line of a denial, or none.
Verdict(s, b, state) == handle_message(Our, Request(s, b), state, Vfs, AllSucceed).info

\* C15: the filter decision depends only on the three sets and on the node
\* and the package of the sender. An evaluation for a sender of the same node
\* and package with any process name, with any body, and in a state with the
\* same three sets but other cached targets and another drive path, gives
\* the same allowed or denied outcome as the evaluation in the current state.
C15_DecisionDependsOnSetsNodePackage ==
  \A s \in Senders :
    LET v == Verdict(s, [tag |-> "Ping", val |-> "x"], State)
    IN  \A q \in Processes :
          LET t == Address(s.node, s.package, q)
          IN  /\ \A b \in Bodies : Verdict(t, b, State) = v
              /\ \A st \in OtherStates, b \in OtherBodies :
                   Verdict(t, b, st) = v

\* C15 witness: a sender that has a cached target was denied like any other
\* sender of its node and package.
C15_Witness ==
  \E a \in DOMAIN log_files :
    /\ Decision(a) # "allowed"
    /\ Logged("info", Decision(a))

\* The record a handled log request must leave behind: the members of its
\* payload other than source, then the sender as source.
RecordOf(e) ==
  IF e.log = "null"
    THEN << << "source", json_address(e.source) >> >>
    ELSE << << "msg", << "hi" >> >>, << "source", json_address(e.source) >> >>

\* The handled log requests routed to the file at path, in arrival order.
RoutedTo(path) ==
  SelectSeq(arrived, LAMBDA e : e.source \in DOMAIN log_files /\ log_files[e.source] = path)

\* C16: the loop handles one message per iteration, in arrival order, and so
\* every log file holds exactly the records of the log requests that were
\* handled with Ok and routed to it, one record each, in the order in which
\* the requests arrived; nothing is lost, duplicated or reordered, also when
\* two senders share the file.
C16_RecordsInArrivalOrder ==
  /\ \A i \in 1..Len(arrived) : arrived[i].source \in DOMAIN log_files
  /\ \A path \in DOMAIN files :
       LET routed == RoutedTo(path)
       IN  files[path] = [i \in 1..Len(routed) |-> RecordOf(routed[i])]

\* C16 witness: two log requests of different senders with different payloads
\* were handled one after the other and went to the same file.
C16_Witness ==
  /\ Len(arrived) = 2
  /\ arrived[1].source # arrived[2].source
  /\ arrived[1].log # arrived[2].log
  /\ log_files[arrived[1].source] = log_files[arrived[2].source]

\* The number of records in the file at path, none when there is no file.
RecordCount(vfs, path) == IF path \in DOMAIN vfs.files THEN Len(vfs.files[path]) ELSE 0

\* C17: a failed append is the error of its message and is not retried.
\* Whatever log request the filter lets through arrives next with a payload
\* that can be appended: it adds at most one record; when its append fails
\* the handler returns the error, the file has no record more than before,
\* and the handle of the sender is cached, so that the sender's next log
\* request opens nothing and appends its record through that handle.
C17_AppendFailureNotRetried ==
  \A s \in Senders, b \in LogBodies :
    (/\ Decision(s) = "allowed"
     /\ from_slice(b.val).ok
     /\ can_index(from_slice(b.val).value))
    => LET path == log_file_path(State, s)
       IN  \A io \in { i \in IO : i.open_dir /\ i.open_file } :
             LET h == Handle(Request(s, b), io)
             IN  /\ RecordCount(h.out.vfs, path) <= RecordCount(Vfs, path) + 1
                 /\ ~io.append
                      => /\ h.out.ret = Err(<< "append failed" >>)
                         /\ h.out.appended = 0
                         /\ RecordCount(h.out.vfs, path) = RecordCount(Vfs, path)
                         /\ s \in DOMAIN h.out.state.log_files
                         /\ h.out.state.log_files[s] = path
                         /\ LET next == handle_message(Our, Request(s, b), h.out.state,
                                                       h.out.vfs, AllSucceed)
                            IN  /\ next.out.ret = Ok
                                /\ next.out.opened = 0
                                /\ next.out.state = h.out.state
                                /\ RecordCount(next.out.vfs, path)
                                     = RecordCount(Vfs, path) + 1

\* C17 witness: two log requests of one sender failed in append one after the
\* other; its file was opened once, its handle is cached and the file holds
\* no record.
C17_Witness ==
  /\ nLogs = 2
  /\ Logged("error", "append failed")
  /\ \E a \in Senders :
       /\ DOMAIN log_files = {a}
       /\ opens[a] = 1
       /\ appends[a] = 0
       /\ files[log_files[a]] = << >>

\* handle_message dropped the request at the filter: Ok, an informational
\* line, nothing touched.
Dropped(h) == h.out.ret = Ok /\ h.info.some /\ Untouched(h)

\* C18 as stated: once the three sets deny the service's own identity, every
\* control command, whoever sends it, is dropped by the filter before it is
\* dispatched.
C18_EveryControlDropped ==
  Decision(Our) # "allowed"
    => \A s \in Senders, b \in InternalBodies :
         Dropped(Handle(Request(s, b), AllSucceed))

\* C18, amended: once the three sets deny the service's own identity they
\* never change again. While the filter denies the service's own identity,
\* every control command of the service is dropped by the filter, every
\* control command of another sender is dropped by the filter or rejected by
\* the control handler as foreign, and every step leaves the whitelist, the
\* blacklist and the allowed packages as they are, so the denial stays in
\* force.
C18_SelfLockoutIsPermanent ==
  /\ [](Decision(Our) # "allowed"
          => \A b \in InternalBodies :
               /\ Dropped(Handle(Request(Our, b), AllSucceed))
               /\ \A s \in Senders \ {Our} :
                    LET h == Handle(Request(s, b), AllSucceed)
                    IN  \/ Dropped(h)
                        \/ /\ Untouched(h)
                           /\ h.out.ret
                                = Err(<< "rejecting InternalRequest from remote node" >>))
  /\ [][ Decision(Our) # "allowed"
          => /\ whitelist' = whitelist
             /\ blacklist' = blacklist
             /\ allowed_packages' = allowed_packages ]_vars

\* C18 witness: one WhitelistNode command of the service took the sets from
\* their initial content to one that denies the service, and a later request
\* from the service's node was dropped as un-whitelisted.
C18_Witness ==
  /\ whitelist = {"bob.os"} /\ blacklist = {} /\ allowed_packages = {}
  /\ Decision(Our) = "dropping log Request from un-whitelisted node"
  /\ Logged("info", "dropping log Request from un-whitelisted node")

\* What the handling h of a message created: keys of log_files, directories
\* and files that were not there before.
NewTargets(h) == DOMAIN h.out.state.log_files \ DOMAIN log_files

NewDirs(h) == h.out.vfs.dirs \ dirs

NewFiles(h) == DOMAIN h.out.vfs.files \ DOMAIN files

\* C19: targets, directories and files exist only for senders that were
\* allowed. Every cached key had its file opened while handling a message of
\* that very sender, every file is the target of a cached key, and whatever
\* message arrives next, if handling it creates a key, a directory or a file
\* then it is a request with a log payload that parses, the filter allows its
\* sender, and what is created is the key, the directory and the file of
\* that sender. A denied message creates nothing.
C19_TargetsOnlyForAllowedSenders ==
  /\ \A a \in DOMAIN log_files : opens[a] = 1
  /\ \A a \in Senders : opens[a] = 0 => a \notin DOMAIN log_files
  /\ \A path \in DOMAIN files : \E a \in DOMAIN log_files : log_files[a] = path
  /\ \A msg \in Messages : \A io \in IOOf(msg.body) :
       LET h == Handle(msg, io)
       IN  /\ (NewTargets(h) # {} \/ NewDirs(h) # {} \/ NewFiles(h) # {})
                => /\ msg.is_request
                   /\ msg.body.tag = "Log"
                   /\ from_slice(msg.body.val).ok
                   /\ Decision(msg.source) = "allowed"
                   /\ NewTargets(h) \subseteq {msg.source}
                   /\ NewDirs(h) \subseteq {Append(drive_path, msg.source.package)}
                   /\ NewFiles(h) \subseteq {log_file_path(State, msg.source)}
           /\ (msg.is_request /\ Decision(msg.source) # "allowed")
                => NewTargets(h) = {} /\ NewDirs(h) = {} /\ NewFiles(h) = {}

\* C19 witness: requests from bob.os were dropped as blacklisted while another
\* node's sender has its target and file; no sender of bob.os has either.
C19_Witness ==
  /\ blacklist = {"bob.os"}
  /\ Logged("info", "dropping log Request from blacklisted node")
  /\ DOMAIN log_files # {}
  /\ DOMAIN files # {}
  /\ \A a \in Senders : a.node = "bob.os" => opens[a] = 0 /\ a \notin DOMAIN log_files

\* The members by which two sets differ.
Difference(S, T) == (S \ T) \cup (T \ S)

\* C20: an accepted control command changes its own set only, by at most the
\* one member it names: the package commands the allowed packages, the
\* whitelist commands the whitelist, the blacklist commands the blacklist;
\* the other two sets, the cached targets, the drive path, the directories
\* and the files stay as they are. A log request, whatever its sender, its
\* payload and the outcome of its VFS calls, changes none of the three sets.
C20_ControlChangesOnlyItsSet ==
  /\ \A b \in InternalBodies :
       Decision(Our) = "allowed" =>
         LET h == Handle(Request(Our, b), AllSucceed)
         IN  /\ h.out.ret = Ok
             /\ Difference(TargetSet(b, State), TargetSet(b, h.out.state)) \subseteq {b.val}
             /\ b.tag \notin PackageTags
                  => h.out.state.allowed_packages = allowed_packages
             /\ b.tag \notin {"WhitelistNode", "UnwhitelistNode"}
                  => h.out.state.whitelist = whitelist
             /\ b.tag \notin {"BlacklistNode", "UnblacklistNode"}
                  => h.out.state.blacklist = blacklist
             /\ h.out.state.log_files = log_files
             /\ h.out.state.drive_path = drive_path
             /\ h.out.vfs = Vfs
             /\ h.out.opened = 0 /\ h.out.appended = 0
  /\ \A s \in Senders, b \in LogBodies, io \in IO :
       FilterSets(Handle(Request(s, b), io).out.state) = FilterSets(State)

\* C20 witness: a sender of bob.os had its record appended and then the
\* service's BlacklistNode command was accepted: the blacklist has its one
\* new member, the other sets are empty, the target is cached and the record
\* is in the file.
C20_Witness ==
  /\ result = "Ok"
  /\ ~logged.some
  /\ blacklist = {"bob.os"} /\ whitelist = {} /\ allowed_packages = {}
  /\ \E a \in DOMAIN log_files :
       /\ a.node = "bob.os"
       /\ Len(files[log_files[a]]) = 1

====
